---- MODULE Spec2Model ----
(***************************************************************************)
(* A model of m3u8-downloader (src/src/main.rs).                           *)
(*                                                                         *)
(* Four specifications share this module:                                  *)
(*   SpecFetch   - one invocation of download_ts_to (lines 171-225);       *)
(*   SpecBatch   - main's download phase: download_ts_and_replace and the  *)
(*                 manifest write that follows it (lines 47-66, 139-169);  *)
(*   SpecChoose  - choose_urls_from_master_playlist as a function          *)
(*                 (lines 104-124);                                        *)
(*   SpecResolve - choose_media_playlist with its recursion                *)
(*                 (lines 68-102, 126-137).                                *)
(* Each specification moves its own variables and leaves the others at     *)
(* their idle values.                                                      *)
(***************************************************************************)
EXTENDS Integers, Sequences, FiniteSets, TLC

VARIABLES
    \* ---- download_ts_to ----
    resource,       \* the remote resource: the bytes the server holds
    init_file,      \* the sink's content when download_ts_to was invoked
    file,           \* the sink's content (the cursor is always at its end)
    start,          \* `start` (line 173)
    dl_pc,          \* position of the invocation
    send_retried,   \* `retried` of the for loop (line 177)
    req,            \* the Range header value of the last request sent, if it had one
    response,       \* the part of the response body not yet delivered
    should_read,    \* `should_read` (line 195)
    have_read,      \* `have_read` (line 196)
    retried,        \* `retried` of the while loop (line 198)
    connections,    \* number of responses obtained by this invocation
    received,       \* every byte chunk() has delivered, in order
    flushed,        \* file.flush() has completed (line 208)
    warned,         \* the Content-Length warning was printed (line 213)
    io_error,       \* which file operation failed, if one did
    \* ---- download_ts_and_replace and main ----
    segments,       \* playlist.segments: the uri of each segment
    task,           \* position of each segment task
    polled,         \* number of tasks join_all has polled for the first time
    permits,        \* permits available in the semaphore
    waiters,        \* the semaphore's FIFO queue of waiting tasks
    files,          \* the segment directory: path -> what was downloaded there
    main_pc,        \* position of main
    manifest,       \* the local manifest file: None, or Some(the segment uris written)
    \* ---- choose_urls_from_master_playlist ----
    variants,       \* playlist.variants of the master playlist
    original_url,   \* the URL the master playlist was fetched from
    chosen,         \* the call's outcome: a panic, or the Vec<Url> returned
    \* ---- choose_media_playlist ----
    stack,          \* the chain of nested choose_media_playlist calls
    result,         \* the value being returned through the chain, if any
    fetched         \* the last manifest request: its URL, what came back, and
                    \* whether it was an odd-numbered request

fetchVars == <<resource, init_file, file, start, dl_pc, send_retried, req, response,
               should_read, have_read, retried, connections, received, flushed,
               warned, io_error>>
batchVars == <<segments, task, polled, permits, waiters, files, main_pc, manifest>>
chooseVars == <<variants, original_url, chosen>>
resolveVars == <<stack, result, fetched>>
vars == <<fetchVars, batchVars, chooseVars, resolveVars>>

\* Option<T>: None is the empty sequence, Some(x) the sequence of x alone.
None == <<>>
Some(x) == <<x>>

\* ---------------------------------------------------------------- bounds
\* Longest remote resource, in bytes.
MaxLen == 2
\* Responses one invocation of download_ts_to may obtain before the model
\* stops granting new ones.
MaxConnections == 2

\* ------------------------------------------------------- download_ts_to
\* const RETRIES: u8 = 10 (line 172).
RETRIES == 10

\* The resources a server may hold: N distinct bytes 1..N.
Resources == {[i \in 1..n |-> i] : n \in 0..MaxLen}

\* The body of an error response (416, 400): bytes that are not the resource's.
ErrorBody == <<0>>

\* format!("{}-", start) (line 180): the header value is the offset followed
\* by a dash; no range unit and no "=" precede it.
FormatRange(offset) == <<offset, "-">>

\* Lines 178-181: the request carries a Range header only when start > 0.
BuildRequest(offset) == IF offset > 0 THEN Some(FormatRange(offset)) ELSE None

\* The server's reading of a Range header value (RFC 7233, 2.1 and 3.1):
\* byte-range-spec is "bytes" "=" first-byte-pos "-".
ParseRange(h) ==
    IF Len(h) = 4 /\ h[1] = "bytes" /\ h[2] = "=" /\ h[4] = "-"
    THEN [ok |-> TRUE, first |-> h[3]]
    ELSE [ok |-> FALSE, first |-> 0]

\* The bodies a range-supporting server may answer a GET with: the whole
\* resource when there is no Range header; the rest of the resource from the
\* first byte position when the header is a satisfiable byte range, an error
\* body when it is not satisfiable; and for a header it cannot read, either
\* the whole resource (the header is ignored) or an error body.
ServerBodies(res, header) ==
    IF header = None THEN {res}
    ELSE LET range == ParseRange(header[1]) IN
         IF range.ok
         THEN IF range.first < Len(res)
              THEN {SubSeq(res, range.first + 1, Len(res))}
              ELSE {ErrorBody}
         ELSE {res, ErrorBody}

\* response.content_length() (line 195): absent, the body's length, or a
\* length the body does not have.
DeclaredLengths(body) == {None, Some(Len(body)), Some(Len(body) + 1)}

\* file.write_all(&chunk) (line 202) on a sink whose cursor is at its end.
WriteAllAtStart(f, chunk) == chunk \o SubSeq(f, Len(chunk) + 1, Len(f))
WriteAll(f, chunk) == f \o chunk

\* Lines 211-215: a declared length that differs from have_read only warns.
LengthMismatchIsFatal(declared, got) ==
    [warn |-> declared # None /\ declared # Some(got),
     fail |-> declared # None /\ declared # Some(got)]
LengthCheck(declared, got) ==
    [warn |-> declared # None /\ declared # Some(got), fail |-> FALSE]

\* Line 205: the body-error counter after a chunk was written, when it was r.
AfterChunkKeepsCount(r) == r
AfterChunk(r) == 0

\* Line 199 and the enclosing loop (line 175): where control goes after a
\* body-read error has raised the counter to r.
AfterBodyErrorFatal(r) == IF r < RETRIES THEN "stream" ELSE "panic"
AfterBodyError(r) == IF r < RETRIES THEN "stream" ELSE "connect"

FetchFrame == UNCHANGED <<batchVars, chooseVars, resolveVars>>

FetchIdle ==
    /\ resource = <<>> /\ init_file = <<>> /\ file = <<>> /\ start = 0
    /\ dl_pc = "idle" /\ send_retried = 0 /\ req = None /\ response = <<>>
    /\ should_read = None /\ have_read = 0 /\ retried = 0 /\ connections = 0
    /\ received = <<>> /\ flushed = FALSE /\ warned = FALSE /\ io_error = "none"

\* The sink holds the first k bytes of the resource (k = 0: a fresh file).
InitFetch ==
    /\ resource \in Resources
    /\ \E k \in 0..Len(resource) : init_file = SubSeq(resource, 1, k)
    /\ file = init_file
    /\ start = 0 /\ dl_pc = "seek" /\ send_retried = 0 /\ req = None
    /\ response = <<>> /\ should_read = None /\ have_read = 0 /\ retried = 0
    /\ connections = 0 /\ received = <<>> /\ flushed = FALSE /\ warned = FALSE
    /\ io_error = "none"

\* Lines 177 and 193-194: where control goes after the r-th failed send() of
\* a Connect phase: the for loop runs RETRIES times, then the missing
\* response panics.
AfterSendErrorTriesAgain(r) == "connect"
AfterSendError(r) == IF r < RETRIES THEN "connect" ELSE "panic"

\* Line 173: file.seek(SeekFrom::End(0)).await? succeeds.
Seek ==
    /\ dl_pc = "seek"
    /\ start' = Len(file)
    /\ dl_pc' = "connect"
    /\ send_retried' = 0
    /\ response' = <<>>
    /\ UNCHANGED <<resource, init_file, file, req, should_read, have_read, retried,
                   connections, received, flushed, warned, io_error>>
    /\ FetchFrame

\* Line 173: the seek fails and `?` returns the error.
SeekFails ==
    /\ dl_pc = "seek"
    /\ dl_pc' = "Err"
    /\ io_error' = "seek"
    /\ UNCHANGED <<resource, init_file, file, start, send_retried, req, response,
                   should_read, have_read, retried, connections, received, flushed,
                   warned>>
    /\ FetchFrame

\* Lines 177-186, 193-198: req.send() yields a response; the for loop breaks
\* and the streaming loop starts with fresh counters.
SendOk ==
    /\ dl_pc = "connect"
    /\ send_retried < RETRIES
    /\ connections < MaxConnections
    /\ req' = BuildRequest(start)
    /\ \E body \in ServerBodies(resource, req') :
         /\ response' = body
         /\ should_read' \in DeclaredLengths(body)
    /\ have_read' = 0
    /\ retried' = 0
    /\ connections' = connections + 1
    /\ dl_pc' = "stream"
    /\ UNCHANGED <<resource, init_file, file, start, send_retried, received, flushed,
                   warned, io_error>>
    /\ FetchFrame

\* Lines 187-194: req.send() fails; the for loop goes on, and when it has run
\* RETRIES times the missing response panics.
SendFails ==
    /\ dl_pc = "connect"
    /\ send_retried < RETRIES
    /\ req' = BuildRequest(start)
    /\ send_retried' = send_retried + 1
    /\ dl_pc' = AfterSendError(send_retried')
    /\ UNCHANGED <<resource, init_file, file, start, response, should_read, have_read,
                   retried, connections, received, flushed, warned, io_error>>
    /\ FetchFrame

\* Lines 201-206: chunk() delivers the next n bytes and they are written.
\* (The bytes of the first MaxConnections responses are followed.)
Chunk ==
    /\ dl_pc = "stream"
    /\ retried < RETRIES
    /\ connections <= MaxConnections
    /\ \E n \in 1..Len(response) :
         LET chunk == SubSeq(response, 1, n) IN
         /\ response' = SubSeq(response, n + 1, Len(response))
         /\ received' = received \o chunk
         /\ file' = WriteAll(file, chunk)
         /\ start' = start + Len(chunk)
         /\ have_read' = have_read + Len(chunk)
    /\ retried' = AfterChunk(retried)
    /\ UNCHANGED <<resource, init_file, dl_pc, send_retried, req, should_read,
                   connections, flushed, warned, io_error>>
    /\ FetchFrame

\* Line 202: write_all fails after writing j bytes of the chunk; `?` returns.
ChunkWriteFails ==
    /\ dl_pc = "stream"
    /\ retried < RETRIES
    /\ connections <= MaxConnections
    /\ \E n \in 1..Len(response) :
         LET chunk == SubSeq(response, 1, n) IN
         /\ response' = SubSeq(response, n + 1, Len(response))
         /\ received' = received \o chunk
         /\ \E j \in 0..(n - 1) : file' = file \o SubSeq(chunk, 1, j)
    /\ dl_pc' = "Err"
    /\ io_error' = "write"
    /\ UNCHANGED <<resource, init_file, start, send_retried, req, should_read,
                   have_read, retried, connections, flushed, warned>>
    /\ FetchFrame

\* Lines 218-221, 199, 175: chunk() fails; the counter goes up, and when it
\* reaches RETRIES the while loop ends and the outer loop starts over.
BodyError ==
    /\ dl_pc = "stream"
    /\ retried < RETRIES
    /\ retried' = retried + 1
    /\ dl_pc' = AfterBodyError(retried')
    /\ send_retried' = IF dl_pc' = "stream" THEN send_retried ELSE 0
    /\ response' = IF dl_pc' = "stream" THEN response ELSE <<>>
    /\ UNCHANGED <<resource, init_file, file, start, req, should_read, have_read,
                   connections, received, flushed, warned, io_error>>
    /\ FetchFrame

\* Lines 207-217: the body has ended; the sink is flushed, the lengths are
\* compared and the call returns Ok(()).
EndOfBody ==
    /\ dl_pc = "stream"
    /\ retried < RETRIES
    /\ response = <<>>
    /\ flushed' = TRUE
    /\ warned' = LengthCheck(should_read, have_read).warn
    /\ dl_pc' = IF LengthCheck(should_read, have_read).fail THEN "Err" ELSE "Ok"
    /\ UNCHANGED <<resource, init_file, file, start, send_retried, req, response,
                   should_read, have_read, retried, connections, received, io_error>>
    /\ FetchFrame

\* Line 208: file.flush().await? fails.
FlushFails ==
    /\ dl_pc = "stream"
    /\ retried < RETRIES
    /\ response = <<>>
    /\ dl_pc' = "Err"
    /\ io_error' = "flush"
    /\ UNCHANGED <<resource, init_file, file, start, send_retried, req, response,
                   should_read, have_read, retried, connections, received, flushed,
                   warned>>
    /\ FetchFrame

NextFetch ==
    \/ Seek \/ SeekFails \/ SendOk \/ SendFails \/ Chunk \/ ChunkWriteFails
    \/ BodyError \/ EndOfBody \/ FlushFails

\* Lines 177-186, 193-198 once more: a response obtained after the first
\* MaxConnections ones. The counter stays at MaxConnections + 1 ("more than
\* MaxConnections"); of such a response the failing reads and the end of an
\* empty body are followed, so the sink stays as the counted responses left it.
SendAgain ==
    /\ dl_pc = "connect"
    /\ send_retried < RETRIES
    /\ connections >= MaxConnections
    /\ req' = BuildRequest(start)
    /\ \E body \in ServerBodies(resource, req') :
         /\ response' = body
         /\ should_read' \in DeclaredLengths(body)
    /\ have_read' = 0
    /\ retried' = 0
    /\ connections' = MaxConnections + 1
    /\ dl_pc' = "stream"
    /\ UNCHANGED <<resource, init_file, file, start, send_retried, received, flushed,
                   warned, io_error>>
    /\ FetchFrame

\* download_ts_to with no limit on the responses it may obtain.
NextFetchLive ==
    \/ Seek \/ SeekFails \/ SendOk \/ SendAgain \/ SendFails \/ Chunk
    \/ ChunkWriteFails \/ BodyError \/ EndOfBody \/ FlushFails

\* ------------------------------------- download_ts_and_replace and main
\* Most segments a resolved media playlist holds.
MaxSegments == 11

\* Semaphore::new(10) (line 140).
PERMITS == 10

\* ts_dir_name (lines 50-54): the manifest's file name followed by ".ts".
TsDir == <<"m3u8_filename", ".ts">>

\* The absolute URL of segment id as the resolver left it in the playlist.
RemoteUri(id) == [kind |-> "remote", at |-> id]

\* Lines 150-151: dir joined with format!("{}.ts", id).
FilePathIgnoresId(dir, id) == [kind |-> "local", dir |-> dir, name |-> <<0, ".ts">>]
FilePath(dir, id) == [kind |-> "local", dir |-> dir, name |-> <<id, ".ts">>]

\* Line 149: acquire_owned() is granted at once when a permit is available
\* and nobody queues for one; otherwise the task joins the queue.
CanAcquireAlways(available, queue) == TRUE
CanAcquire(available, queue) == available > 0 /\ queue = <<>>

\* Line 160: `_permit` is dropped at the end of the task. The permits
\* available after the release: the semaphore hands the permit to the head
\* of its queue when a task waits, else the permit is available again.
AfterReleaseKeepsPermit(available, queue) == available
AfterRelease(available, queue) == IF queue # <<>> THEN available ELSE available + 1

\* The task a released permit is assigned to: the semaphore takes the head
\* off its queue, gives it the permit and wakes it; join_all then polls it
\* and its acquire_owned() returns.
WokenNobody(queue) == {}
Woken(queue) == IF queue # <<>> THEN {Head(queue)} ELSE {}

\* Line 158: download_ts_to(..).await.unwrap(): Ok lets the task go on, an Err
\* panics, and so does a panic inside the call.
UnwrapSwallowsFailure(outcome) == "done"
UnwrapIgnoresErr(outcome) == IF outcome = "panic" THEN "panic" ELSE "done"
Unwrap(outcome) == IF outcome = "Ok" THEN "done" ELSE "panic"

\* The ways a download_ts_to call ends (the final positions of SpecFetch).
FetchOutcomes == {"Ok", "Err", "panic"}

Ids == DOMAIN segments
NoUri == [kind |-> "none", at |-> 0]
NoFile == [src |-> NoUri, flushed |-> FALSE, exists |-> FALSE]
NoTask == [pc |-> "none", url |-> NoUri, out |-> None, dl |-> "none"]
BatchFrame == UNCHANGED <<fetchVars, chooseVars, resolveVars>>

BatchIdle ==
    /\ segments = <<>> /\ task = <<>> /\ polled = 0 /\ permits = 0
    /\ waiters = <<>> /\ files = <<>> /\ main_pc = "idle" /\ manifest = None

\* main after choose_media_playlist returned a playlist of n segments
\* (line 47); nothing of this run is on disk yet.
InitBatch ==
    /\ \E n \in 0..MaxSegments : segments = [i \in 0..(n - 1) |-> RemoteUri(i)]
    /\ task = [i \in DOMAIN segments |-> NoTask]
    /\ polled = 0
    /\ permits = 0
    /\ waiters = <<>>
    /\ files = [p \in {FilePath(TsDir, i) : i \in DOMAIN segments} |-> NoFile]
    /\ main_pc = "mkdir"
    /\ manifest = None

\* Lines 55-56, 140-162: create_dir_all succeeds; download_ts_and_replace
\* builds the semaphore and one task per segment, each with its own copy of
\* the segment's uri.
CreateDirAndTasks ==
    /\ main_pc = "mkdir"
    /\ main_pc' = "batch"
    /\ permits' = PERMITS
    /\ task' = [i \in Ids |-> [NoTask EXCEPT !.pc = "created", !.url = segments[i]]]
    /\ UNCHANGED <<segments, polled, waiters, files, manifest>>
    /\ BatchFrame

\* Line 55: create_dir_all fails and `?` ends main with the error.
CreateDirFails ==
    /\ main_pc = "mkdir"
    /\ main_pc' = "mkdir failed"
    /\ UNCHANGED <<segments, task, polled, permits, waiters, files, manifest>>
    /\ BatchFrame

\* Line 164, line 149: join_all polls the tasks in order; the first poll of
\* task id runs its acquire_owned().
FirstPoll(id) ==
    /\ main_pc = "batch"
    /\ id = polled
    /\ task[id].pc = "created"
    /\ polled' = polled + 1
    /\ IF CanAcquire(permits, waiters)
       THEN /\ permits' = permits - 1
            /\ task' = [task EXCEPT ![id].pc = "acquired"]
            /\ UNCHANGED waiters
       ELSE /\ waiters' = Append(waiters, id)
            /\ task' = [task EXCEPT ![id].pc = "waiting"]
            /\ UNCHANGED permits
    /\ UNCHANGED <<segments, files, main_pc, manifest>>
    /\ BatchFrame

\* A task goes past an await only when join_all polls it again, which is
\* after the sweep of first polls.
Swept == polled = Cardinality(Ids)

\* A panic in a task unwinds through join_all, download_ts_and_replace and
\* main: every task is dropped, and with the tasks their permits and their
\* places in the semaphore's queue.
Unwind(id, outcome) ==
    /\ main_pc' = "panic"
    /\ task' = [i \in Ids |-> [task[i] EXCEPT !.pc = "dropped",
                                              !.dl = IF i = id THEN outcome ELSE @]]
    /\ permits' = PERMITS
    /\ waiters' = <<>>

\* Line 157: the open fails and unwrap() panics.
OpenFileFails(id) ==
    /\ main_pc = "batch"
    /\ Swept
    /\ task[id].pc = "acquired"
    /\ Unwind(id, "open failed")
    /\ UNCHANGED <<segments, polled, files, manifest>>
    /\ BatchFrame

\* Lines 150-160: the task, holding its permit, has opened (creating it when
\* missing) the file of its ordinal and download_ts_to has ended with Ok:
\* the file holds the flushed download of the task's url, the task yields
\* (id, path) and drops its permit, which the semaphore hands to the head of
\* its queue.
Download(id) ==
    /\ main_pc = "batch"
    /\ Swept
    /\ task[id].pc = "acquired"
    /\ \E outcome \in FetchOutcomes :
         /\ Unwrap(outcome) = "done"
         /\ files' = [files EXCEPT ![FilePath(TsDir, id)].exists = TRUE,
                                   ![FilePath(TsDir, id)].src =
                                        IF outcome = "Ok" THEN task[id].url ELSE @,
                                   ![FilePath(TsDir, id)].flushed = (outcome = "Ok")]
         /\ LET finished == [task EXCEPT ![id].pc = "done",
                                         ![id].out = Some(<<id, FilePath(TsDir, id)>>),
                                         ![id].dl = outcome]
            IN /\ permits' = AfterRelease(permits, waiters)
               /\ task' = [i \in Ids |-> IF i \in Woken(waiters)
                                         THEN [finished[i] EXCEPT !.pc = "acquired"]
                                         ELSE finished[i]]
               /\ waiters' = IF waiters # <<>> THEN Tail(waiters) ELSE waiters
    /\ UNCHANGED <<segments, polled, main_pc, manifest>>
    /\ BatchFrame

\* Lines 150-158: the file is opened and download_ts_to ends with an Err or
\* a panic (it leaves no completed download in the file); unwrap() panics.
DownloadFails(id) ==
    /\ main_pc = "batch"
    /\ Swept
    /\ task[id].pc = "acquired"
    /\ \E outcome \in FetchOutcomes : Unwrap(outcome) = "panic" /\ Unwind(id, outcome)
    /\ files' = [files EXCEPT ![FilePath(TsDir, id)].exists = TRUE]
    /\ UNCHANGED <<segments, polled, manifest>>
    /\ BatchFrame

\* Lines 164-168: join_all has every task's output; each (id, url) replaces
\* the uri of segment id, and the function returns Ok(()).
JoinAndReplace ==
    /\ main_pc = "batch"
    /\ \A i \in Ids : task[i].pc = "done"
    /\ segments' = [i \in Ids |->
                      LET outs == {j \in Ids : task[j].out[1][1] = i}
                      IN IF outs = {} THEN segments[i]
                         ELSE task[CHOOSE j \in outs : TRUE].out[1][2]]
    /\ main_pc' = "write"
    /\ UNCHANGED <<task, polled, permits, waiters, files, manifest>>
    /\ BatchFrame

\* Lines 59-65: the playlist is serialised and written; main returns Ok(()).
WriteManifest ==
    /\ main_pc = "write"
    /\ manifest' = Some(segments)
    /\ main_pc' = "done"
    /\ UNCHANGED <<segments, task, polled, permits, waiters, files>>
    /\ BatchFrame

\* Line 62: write fails and `?` ends main with the error; no manifest
\* that a player could read is left.
WriteManifestFails ==
    /\ main_pc = "write"
    /\ main_pc' = "write failed"
    /\ UNCHANGED <<segments, task, polled, permits, waiters, files, manifest>>
    /\ BatchFrame

NextBatch ==
    \/ CreateDirAndTasks \/ CreateDirFails
    \/ \E id \in Ids : FirstPoll(id)
    \/ \E id \in Ids : OpenFileFails(id)
    \/ \E id \in Ids : Download(id)
    \/ \E id \in Ids : DownloadFails(id)
    \/ JoinAndReplace \/ WriteManifest \/ WriteManifestFails

\* --------------------------------------- choose_urls_from_master_playlist
\* Most variants a master playlist lists.
MaxVariants == 2

\* Url: an absolute URL is a directory and a file name; a uri that is only a
\* file name is relative.
Dirs == {"d1", "d2"}
FileNames == {"a"}
Urls == [abs : {TRUE}, dir : Dirs, file : FileNames]
RelativeUris == [abs : {FALSE}, dir : {""}, file : FileNames]
UriStrings == Urls \cup RelativeUris
NoUrl == [abs |-> FALSE, dir |-> "", file |-> ""]

\* Url::parse(&uri): succeeds on an absolute URL, fails with
\* RelativeUrlWithoutBase on a relative one.
UrlParse(uri) == [ok |-> uri.abs, url |-> uri]

\* Url::options().base_url(Some(base)).parse(&uri): the file name of the
\* base is replaced by the relative uri.
UrlJoin(base, uri) == [abs |-> TRUE, dir |-> base.dir, file |-> uri.file]

\* Lines 116-121 and 128-134: the uri itself when it parses as a URL,
\* otherwise the uri resolved against original_url.
ResolveUri(uri, base) ==
    IF UrlParse(uri).ok THEN UrlParse(uri).url ELSE UrlJoin(base, uri)

\* The BANDWIDTH attribute is text: a sequence of characters.
DigitChars == <<"0", "1", "2", "3", "4", "5", "6", "7", "8", "9">>
IsDigit(c) == \E d \in 1..10 : DigitChars[d] = c
DigitValue(c) == (CHOOSE d \in 1..10 : DigitChars[d] = c) - 1
BandwidthStrings == {<<"1">>, <<"2">>, <<"0", "2">>, <<"x">>}

RECURSIVE DecimalValue(_)
DecimalValue(str) ==
    IF str = <<>> THEN 0
    ELSE 10 * DecimalValue(SubSeq(str, 1, Len(str) - 1)) + DigitValue(str[Len(str)])

\* variant.bandwidth.parse::<u64>(): Err on an empty string or a character
\* that is no digit, else the decimal value.
ParseU64(str) ==
    IF str # <<>> /\ \A k \in 1..Len(str) : IsDigit(str[k])
    THEN [ok |-> TRUE, value |-> DecimalValue(str)]
    ELSE [ok |-> FALSE, value |-> 0]

Variants == [bandwidth : BandwidthStrings, uri : UriStrings]
VariantLists == UNION {[1..n -> Variants] : n \in 0..MaxVariants}

\* Lines 106-110: the greatest parsed bandwidth (the list is not empty and
\* every bandwidth parses).
LowestBandwidth(vs) ==
    CHOOSE b \in {ParseU64(vs[k].bandwidth).value : k \in 1..Len(vs)} :
        \A k \in 1..Len(vs) : ParseU64(vs[k].bandwidth).value >= b
BestBandwidth(vs) ==
    CHOOSE b \in {ParseU64(vs[k].bandwidth).value : k \in 1..Len(vs)} :
        \A k \in 1..Len(vs) : ParseU64(vs[k].bandwidth).value <= b

\* Line 113: the filter's predicate.
Keeps(vs, k, best) == ParseU64(vs[k].bandwidth).value >= best

RECURSIVE FilterMap(_, _, _, _)
\* Lines 111-123: the variants from position k on that pass the filter, each
\* mapped to its resolved URL, in order.
FilterMap(vs, k, best, base) ==
    IF k > Len(vs) THEN <<>>
    ELSE IF Keeps(vs, k, best)
         THEN <<ResolveUri(vs[k].uri, base)>> \o FilterMap(vs, k + 1, best, base)
         ELSE FilterMap(vs, k + 1, best, base)

\* choose_urls_from_master_playlist (lines 104-124): panics by unwrap() of
\* None on an empty variant list (line 110) and by unwrap() of the parse
\* error on a bandwidth that is no number (lines 108-109).
ChooseUrls(vs, base) ==
    IF vs = <<>> \/ \E k \in 1..Len(vs) : ~ParseU64(vs[k].bandwidth).ok
    THEN [panic |-> TRUE, urls |-> <<>>]
    ELSE [panic |-> FALSE, urls |-> FilterMap(vs, 1, BestBandwidth(vs), base)]

ChooseIdle ==
    /\ variants = <<>> /\ original_url = NoUrl
    /\ chosen = [done |-> FALSE, panic |-> FALSE, urls |-> <<>>]

InitChoose ==
    /\ variants \in VariantLists
    /\ original_url \in Urls
    /\ chosen = [done |-> FALSE, panic |-> FALSE, urls |-> <<>>]

\* One call of choose_urls_from_master_playlist(playlist, &url).
Choose ==
    /\ ~chosen.done
    /\ original_url # NoUrl
    /\ chosen' = [done |-> TRUE, panic |-> ChooseUrls(variants, original_url).panic,
                  urls |-> ChooseUrls(variants, original_url).urls]
    /\ UNCHANGED <<variants, original_url>>
    /\ UNCHANGED <<fetchVars, batchVars, resolveVars>>

NextChoose == Choose

\* ------------------------------------------------- choose_media_playlist
\* Most segments a fetched media playlist lists.
MaxMediaSegments == 1
\* Deepest nesting of choose_media_playlist calls the model follows.
MaxDepth == 3

SegmentLists == UNION {[1..n -> UriStrings] : n \in 0..MaxMediaSegments}

\* What a GET of a manifest URL followed by parse_playlist can give
\* (lines 73-96): a transport error, a parse error, a media playlist or a
\* master playlist.
Manifests ==
    [kind : {"fetch_error", "parse_error"}, segments : {<<>>}, variants : {<<>>}]
    \cup [kind : {"media"}, segments : SegmentLists, variants : {<<>>}]
    \cup [kind : {"master"}, segments : {<<>>}, variants : VariantLists]

\* The Error made of a failed candidate (lines 91 and 95).
ErrorOf(kind, url) == [kind |-> kind, url |-> url]

\* Lines 91 and 95: last_error = Some(err) replaces whatever was recorded.
KeepFirstError(last_error, err) == IF last_error = None THEN Some(err) ELSE last_error
RecordError(last_error, err) == Some(err)

\* normalize_media_playlist (lines 126-137): every segment uri becomes the
\* text of its resolved URL.
NormalizeLeavesUris(segs, base) == segs
NormalizeMediaPlaylist(segs, base) == [k \in 1..Len(segs) |-> ResolveUri(segs[k], base)]

\* The innermost call is the last of the chain.
Top == stack[Len(stack)]
NoError == [kind |-> "none", url |-> NoUrl]
NoResult == [kind |-> "none", playlist |-> <<>>, error |-> NoError]
NoFetch == [url |-> NoUrl, kind |-> "none", segments |-> <<>>, odd |-> FALSE]
ResolveFrame == UNCHANGED <<fetchVars, batchVars, chooseVars>>

ResolveIdle == stack = <<>> /\ result = NoResult /\ fetched = NoFetch

\* Line 47: main calls choose_media_playlist(vec![url]).
InitResolve ==
    /\ \E url \in Urls : stack = <<[urls |-> <<url>>, idx |-> 1, last_error |-> None]>>
    /\ result = NoResult
    /\ fetched = NoFetch

Running == stack # <<>> /\ Top.idx <= Len(Top.urls)
Candidate == Top.urls[Top.idx]

\* Lines 73-78, 90-97: the fetch of the candidate or the parse of its body
\* fails; the error is recorded and the loop goes on with the next candidate.
CandidateFails ==
    /\ Running
    /\ \E kind \in {"fetch_error", "parse_error"} :
         /\ fetched' = [url |-> Candidate, kind |-> kind, segments |-> <<>>,
                       odd |-> ~fetched.odd]
         /\ stack' = [stack EXCEPT
                        ![Len(stack)].last_error =
                            RecordError(Top.last_error, ErrorOf(kind, Candidate)),
                        ![Len(stack)].idx = Top.idx + 1]
    /\ UNCHANGED result
    /\ ResolveFrame

\* Lines 86-89: the candidate is a media playlist; it is normalized against
\* the candidate's URL and returned. Every call of the chain awaits the call
\* nested in it at line 81 and returns its value, so the playlist is what
\* the whole chain returns to main.
CandidateIsMedia ==
    /\ Running
    /\ \E segs \in SegmentLists :
         /\ fetched' = [url |-> Candidate, kind |-> "media", segments |-> segs,
                       odd |-> ~fetched.odd]
         /\ result' = [kind |-> "ok",
                       playlist |-> NormalizeMediaPlaylist(segs, Candidate),
                       error |-> NoError]
    /\ stack' = <<>>
    /\ ResolveFrame

\* Lines 81-83: what choose_urls_from_master_playlist(playlist, &url) can
\* give for a master playlist fetched from url, over every variant list.
MasterOutcomes == [url \in Urls |-> {ChooseUrls(vs, url) : vs \in VariantLists}]

\* Lines 80-85: the candidate is a master playlist; the call is nested on
\* the URLs chosen from it, or choose_urls_from_master_playlist panics and
\* the panic unwinds the chain.
CandidateIsMaster ==
    /\ Running
    /\ Len(stack) < MaxDepth
    /\ \E urls \in MasterOutcomes[Candidate] :
         /\ fetched' = [url |-> Candidate, kind |-> "master", segments |-> <<>>,
                       odd |-> ~fetched.odd]
         /\ IF urls.panic
            THEN /\ result' = [NoResult EXCEPT !.kind = "panic"]
                 /\ stack' = <<>>
            ELSE /\ stack' = Append(stack, [urls |-> urls.urls, idx |-> 1,
                                            last_error |-> None])
                 /\ UNCHANGED result
    /\ ResolveFrame

\* Line 99: the loop of the innermost call is over; it returns
\* Err(last_error.unwrap()), and with it (line 81) every call of the chain.
Exhausted ==
    /\ stack # <<>>
    /\ Top.idx > Len(Top.urls)
    /\ result' = IF Top.last_error = None
                 THEN [NoResult EXCEPT !.kind = "panic"]
                 ELSE [kind |-> "err", playlist |-> <<>>, error |-> Top.last_error[1]]
    /\ stack' = <<>>
    /\ UNCHANGED fetched
    /\ ResolveFrame

NextResolve ==
    \/ CandidateFails \/ CandidateIsMedia \/ CandidateIsMaster \/ Exhausted

\* Lines 80-85 once more: a call nested below MaxDepth calls. The chain keeps
\* its innermost MaxDepth calls: the outermost one, which only awaits the
\* call nested in it and returns its value (line 81), is left out.
CandidateIsMasterDeep ==
    /\ Running
    /\ Len(stack) = MaxDepth
    /\ \E urls \in MasterOutcomes[Candidate] :
         /\ fetched' = [url |-> Candidate, kind |-> "master", segments |-> <<>>,
                       odd |-> ~fetched.odd]
         /\ IF urls.panic
            THEN /\ result' = [NoResult EXCEPT !.kind = "panic"]
                 /\ stack' = <<>>
            ELSE /\ stack' = Append(Tail(stack), [urls |-> urls.urls, idx |-> 1,
                                                  last_error |-> None])
                 /\ UNCHANGED result
    /\ ResolveFrame

\* choose_media_playlist with no limit on the nesting of its calls.
NextResolveLive ==
    \/ CandidateFails \/ CandidateIsMedia \/ CandidateIsMaster
    \/ CandidateIsMasterDeep \/ Exhausted

\* ------------------------------------------------------- specifications
InitFetchOnly == InitFetch /\ BatchIdle /\ ChooseIdle /\ ResolveIdle
SpecFetch == InitFetchOnly /\ [][NextFetch]_vars

\* Every await of download_ts_to completes: the client is built with a
\* connect timeout and a request timeout (lines 24-30), whose expiry is an
\* Err of send() or chunk(), and the file operations return. So an
\* invocation that has not returned takes its next step.
SpecFetchLive == InitFetchOnly /\ [][NextFetchLive]_vars /\ WF_vars(NextFetchLive)

InitBatchOnly == InitBatch /\ FetchIdle /\ ChooseIdle /\ ResolveIdle
SpecBatch == InitBatchOnly /\ [][NextBatch]_vars

\* main's future is polled whenever one of its awaits can complete: the
\* runtime polls it when it is woken, join_all polls every task that was
\* woken, and a released permit wakes the task it is assigned to. So a batch
\* in which some step is possible takes a step.
SpecBatchLive == InitBatchOnly /\ [][NextBatch]_vars /\ WF_vars(NextBatch)

InitChooseOnly == InitChoose /\ FetchIdle /\ BatchIdle /\ ResolveIdle
SpecChoose == InitChooseOnly /\ [][NextChoose]_vars

InitResolveOnly == InitResolve /\ FetchIdle /\ BatchIdle /\ ChooseIdle
SpecResolve == InitResolveOnly /\ [][NextResolve]_vars

\* Every manifest request completes, with a body or with an error: the
\* client's timeouts (lines 24-30) end a request the server leaves open. So a
\* resolution that has not returned takes its next step.
SpecResolveLive == InitResolveOnly /\ [][NextResolveLive]_vars /\ WF_vars(NextResolveLive)

\* ================================================================ claims

\* ---- C1 (SpecBatch)
\* C1: in every reachable state of download_ts_and_replace, for a playlist
\* of any size, at most 10 segment tasks hold a permit (are between the
\* grant of their permit and the end of their download_ts_to call).
C1_AtMostTenHoldPermit ==
    Cardinality({i \in DOMAIN task : task[i].pc = "acquired"}) <= 10

\* Ten tasks hold a permit while a further segment of the playlist queues.
C1_TenHoldAndOneWaits ==
    /\ Cardinality({i \in DOMAIN task : task[i].pc = "acquired"}) = 10
    /\ \E i \in DOMAIN task : task[i].pc = "waiting"

\* ---- C2 (SpecBatch)
\* download_ts_and_replace has returned Ok(()) to main.
BatchReturnedOk == main_pc \in {"write", "done", "write failed"}

\* C2: after download_ts_and_replace has returned successfully, segment i
\* holds the path dir/i.ts, and the file at that path is the download of the
\* original URL of segment i, whatever the order the downloads ended in.
C2_SegmentKeepsItsOrdinal ==
    BatchReturnedOk =>
        \A i \in DOMAIN segments :
            LET path == [kind |-> "local", dir |-> TsDir, name |-> <<i, ".ts">>] IN
            /\ segments[i] = path
            /\ path \in DOMAIN files
            /\ files[path].src = [kind |-> "remote", at |-> i]

\* The batch has returned on a playlist longer than the permit pool, so that
\* later segments were downloaded after earlier ones had ended in any order.
C2_LongPlaylistRewritten ==
    /\ main_pc = "done"
    /\ Cardinality(DOMAIN segments) > 10
    /\ \A i \in DOMAIN segments : segments[i].kind = "local"

\* ---- C4 (SpecBatch)
\* C4: download_ts_and_replace returns success only when, for every segment,
\* download_ts_to has returned Ok (end of body reached, sink flushed) and the
\* segment's uri has been rewritten to a local path.
C4_SuccessOnlyWhenAllDownloaded ==
    BatchReturnedOk =>
        \A i \in DOMAIN segments :
            /\ task[i].pc = "done"
            /\ task[i].dl = "Ok"
            /\ \E p \in DOMAIN files :
                   files[p].flushed /\ files[p].src = task[i].url /\ segments[i] = p
            /\ segments[i].kind = "local"

\* The batch has just returned success on a playlist with segments.
C4_BatchReturned ==
    /\ main_pc = "write"
    /\ DOMAIN segments # {}
    /\ \A i \in DOMAIN segments : task[i].dl = "Ok"

C3_ResumeIdempotent ==
    (dl_pc = "Ok" /\ Len(init_file) < Len(resource)) => file = resource

C10_MismatchOnlyWarns ==
    /\ dl_pc = "Ok" =>
           /\ flushed
           /\ file = init_file \o received
           /\ warned <=> (should_read # None /\ should_read # Some(have_read))
    /\ dl_pc = "Err" => io_error # "none"
    /\ warned => dl_pc = "Ok"

\* An empty sink received fewer bytes than the response declared, in one
\* response, and the call has returned Ok with exactly those bytes.
C10_ShortBodyAccepted ==
    /\ dl_pc = "Ok"
    /\ init_file = <<>>
    /\ connections = 1
    /\ should_read = Some(have_read + 1)
    /\ have_read > 0
    /\ warned
    /\ Len(file) = have_read

\* ---- C6 (SpecChoose)
\* The positions of the variants whose bandwidth no other variant exceeds.
C6_Value(k) == ParseU64(variants[k].bandwidth).value
C6_MaxPositions ==
    {k \in 1..Len(variants) : \A j \in 1..Len(variants) : C6_Value(j) <= C6_Value(k)}
C6_NthMaxPosition(n) ==
    CHOOSE k \in C6_MaxPositions : Cardinality({m \in C6_MaxPositions : m < k}) = n - 1
C6_Absolute(uri) ==
    IF uri.abs THEN uri ELSE [abs |-> TRUE, dir |-> original_url.dir, file |-> uri.file]
\* The returned list is the uris of exactly the maximum-bandwidth variants,
\* in playlist order, ties kept.
C6_ExactlyTheBest ==
    /\ Len(chosen.urls) = Cardinality(C6_MaxPositions)
    /\ \A n \in 1..Len(chosen.urls) :
           chosen.urls[n] = C6_Absolute(variants[C6_NthMaxPosition(n)].uri)
C6_WellFormed ==
    /\ variants # <<>>
    /\ \A k \in 1..Len(variants) :
           \A c \in 1..Len(variants[k].bandwidth) :
               variants[k].bandwidth[c] \in {"0", "1", "2", "3", "4", "5", "6", "7", "8", "9"}

C7_State ==
    /\ (stack # <<>> /\ Top.idx > 1) =>
           /\ fetched.kind \in {"fetch_error", "parse_error"}
           /\ fetched.url = Top.urls[Top.idx - 1]
           /\ Top.last_error = <<[kind |-> fetched.kind, url |-> fetched.url]>>
    /\ result.kind = "ok" =>
           /\ fetched.kind = "media"
           /\ Len(result.playlist) = Len(fetched.segments)
           /\ \A k \in 1..Len(fetched.segments) :
                  result.playlist[k] =
                      IF fetched.segments[k].abs THEN fetched.segments[k]
                      ELSE [abs |-> TRUE, dir |-> fetched.url.dir,
                            file |-> fetched.segments[k].file]
    /\ result.kind = "err" =>
           /\ fetched.kind \in {"fetch_error", "parse_error"}
           /\ result.error = [kind |-> fetched.kind, url |-> fetched.url]
\* What a step shows of C7: a failing candidate is the current one of the
\* innermost call, the call goes on with the next one and nothing is
\* returned; a playlist is returned at the current candidate; an error is
\* returned by a call past its last candidate and is that candidate's error.
C7_Step ==
    /\ (stack' # <<>> /\ Len(stack') = Len(stack)) =>
           /\ fetched'.url = Top.urls[Top.idx]
           /\ stack'[Len(stack)].idx = Top.idx + 1
           /\ stack'[Len(stack)].urls = Top.urls
           /\ result' = result
    /\ result'.kind = "ok" => fetched'.url = Top.urls[Top.idx]
    /\ result'.kind = "err" =>
           /\ Top.idx = Len(Top.urls) + 1
           /\ result'.error.url = Top.urls[Len(Top.urls)]

\* C7: the candidates of a call are tried in list order; a candidate whose
\* fetch or parse fails has its error recorded and the next candidate is
\* tried instead of failing; a call that returns at a media playlist
\* candidate returns that candidate's playlist normalized; a call all of
\* whose candidates failed to fetch or parse returns the error of the last
\* candidate tried.
C7_FailuresRecordedAndSkipped == [](C7_State) /\ [][C7_Step]_vars

\* The first of two candidates has failed, its error is the recorded one
\* and the call is at its second candidate.
C7_FirstFailedSecondIsNext ==
    /\ stack # <<>>
    /\ Len(Top.urls) = 2
    /\ Top.idx = 2
    /\ Top.last_error # None
    /\ Top.last_error[1].url = Top.urls[1]
    /\ result.kind = "none"

\* ---- C8 (SpecResolve)
\* C8: a call returns an error only when every candidate of its list has
\* been tried and has failed (a master playlist candidate failing when the
\* resolution of its variants fails); no call returns an error while a
\* later candidate of its list is untried. A call of the chain is at its
\* candidate idx, so its candidates after idx are untried.
C8_ErrorOnlyAfterAllTried ==
    [][result'.kind = "err" =>
          \A d \in 1..Len(stack) : stack[d].idx >= Len(stack[d].urls)]_vars

C12_InvocationTerminates == <>(dl_pc \in {"Ok", "Err", "panic"})

\* ---- C13 (SpecFetch)
\* What the state shows of C13: a Connect phase in progress has made fewer
\* than 10 attempts, all of them failed; the invocation has panicked exactly
\* when 10 attempts of one phase have failed.
C13_State ==
    /\ send_retried \in 0..10
    /\ dl_pc = "connect" => send_retried < 10
    /\ dl_pc = "panic" <=> send_retried = 10
\* What a step shows of C13: a phase starts with no attempt made; a step of
\* a phase is one request, sent while fewer than 10 were; a response ends
\* the phase, a failure counts and is followed by another attempt of the
\* same phase only when it was not the tenth.
C13_Step ==
    /\ (dl_pc # "connect" /\ dl_pc' = "connect") => send_retried' = 0
    /\ dl_pc = "connect" =>
           /\ send_retried < 10
           /\ \/ dl_pc' = "stream" /\ send_retried' = send_retried
                  /\ connections' > connections
              \/ /\ send_retried' = send_retried + 1
                 /\ connections' = connections
                 /\ dl_pc' = IF send_retried < 9 THEN "connect" ELSE "panic"
    /\ dl_pc \in {"panic", "Ok", "Err"} => dl_pc' = dl_pc

\* C13: in each Connect phase of download_ts_to at most 10 requests are
\* sent; a failed attempt is followed by another only while fewer than 10
\* were made, the first response ends the phase, and after 10 consecutive
\* failures the invocation panics without an 11th attempt.
C13_AtMostTenAttemptsPerPhase == [](C13_State) /\ [][C13_Step]_vars

\* The invocation has panicked on the tenth failed attempt of its second
\* Connect phase.
C13_PanicAfterTenFailedSends ==
    /\ dl_pc = "panic"
    /\ send_retried = 10
    /\ connections = 1
    /\ retried = 10

\* ---- C14 (SpecBatch)
\* The tasks that hold a permit.
C14_Holders == {i \in DOMAIN task : task[i].pc = "acquired"}
\* What the state shows of C14: every permit is available or held by a task
\* whose download has not finished, a segment whose file was opened or whose
\* download has an outcome belongs to a task that got a permit, and a task
\* queues only while no permit is available.
C14_State ==
    /\ main_pc \notin {"idle", "mkdir", "mkdir failed"} =>
           permits + Cardinality(C14_Holders) = 10
    /\ \A i \in DOMAIN task :
           /\ task[i].pc \in {"none", "created", "waiting"} =>
                  /\ task[i].dl = "none"
                  /\ ~files[[kind |-> "local", dir |-> TsDir, name |-> <<i, ".ts">>]].exists
           /\ task[i].pc = "done" => task[i].dl = "Ok"
    /\ waiters # <<>> => permits = 0
\* What a step shows of C14: the file of segment i is opened and its
\* download ends only in a step of a task that holds a permit; when the
\* download ends with success the task holds no permit any more and the
\* permit goes to the head of the queue, which then holds it, or is
\* available again; when it ends with a fatal failure no task holds a permit
\* any more.
C14_Step ==
    \A i \in DOMAIN task :
        LET path == [kind |-> "local", dir |-> TsDir, name |-> <<i, ".ts">>] IN
        /\ (files'[path] # files[path] \/ task'[i].dl # task[i].dl) =>
               i \in C14_Holders
        /\ (i \in C14_Holders /\ task'[i].pc = "done") =>
               IF waiters # <<>>
               THEN /\ task'[Head(waiters)].pc = "acquired"
                    /\ waiters' = Tail(waiters)
                    /\ permits' = permits
               ELSE permits' = permits + 1
        /\ (i \in C14_Holders /\ task'[i].pc = "dropped") =>
               /\ permits' = 10
               /\ \A j \in DOMAIN task : task'[j].pc # "acquired"

C15_EverySegmentCompletes ==
    [](main_pc \notin {"panic", "mkdir failed"}) =>
        <>(/\ main_pc \in {"write", "done", "write failed"}
           /\ \A i \in DOMAIN task : task[i].pc = "done" /\ task[i].dl = "Ok"
           /\ waiters = <<>>
           /\ permits = 10)

\* The batch has returned on a playlist longer than the pool: every task is
\* done, nobody queues and every permit is back.
C15_LongBatchReturned ==
    /\ main_pc = "write"
    /\ Cardinality(DOMAIN task) > 10
    /\ \A i \in DOMAIN task : task[i].pc = "done"
    /\ waiters = <<>>
    /\ permits = 10

\* ---- C16 (SpecFetch)
\* What the state shows of C16: while the invocation connects or streams,
\* `start` is the length of the sink; the sink is what it held at the call
\* followed by bytes received, in the order received.
C16_State ==
    /\ dl_pc \in {"connect", "stream", "Ok", "panic"} =>
           /\ start = Len(file)
           /\ file = init_file \o received
    /\ Len(file) >= Len(init_file)
    /\ SubSeq(file, 1, Len(init_file)) = init_file
    /\ \A k \in 1..(Len(file) - Len(init_file)) :
           k <= Len(received) /\ file[Len(init_file) + k] = received[k]
\* What a step shows of C16: a request carries the sink's length as its
\* offset (no Range header at length 0); a write leaves every byte of the
\* sink where it was and adds bytes of the chunk just received after them.
C16_Step ==
    /\ (dl_pc = "connect" /\ dl_pc' \in {"connect", "stream", "panic"}) =>
           /\ start = Len(file)
           /\ req' = IF Len(file) > 0 THEN <<(<<Len(file), "-">>)>> ELSE <<>>
    /\ file' # file =>
           /\ Len(file') > Len(file)
           /\ SubSeq(file', 1, Len(file)) = file
           /\ Len(received') >= Len(received) + (Len(file') - Len(file))
           /\ \A k \in 1..(Len(file') - Len(file)) :
                  file'[Len(file) + k] = received'[Len(received) + k]
    /\ (file' # file /\ dl_pc' = "stream") => start' = Len(file')

\* C16: throughout an invocation of download_ts_to the offset used at every
\* connection attempt is the current length of the sink, and every chunk is
\* written at the end of the sink: the sink grows in offset order, without
\* a gap and without an overwritten byte.
C16_OffsetIsSinkLength == [](C16_State) /\ [][C16_Step]_vars

\* A second response is being streamed into a sink that held bytes at the
\* call and got more from the first response: its request carried the
\* sink's length of that moment.
C16_SecondRequestAtSinkLength ==
    /\ dl_pc = "stream"
    /\ connections = 2
    /\ init_file # <<>>
    /\ have_read > 0
    /\ Len(file) > Len(init_file) + have_read
    /\ req = <<(<<Len(file) - have_read, "-">>)>>

\* ---- C17 (SpecFetch)
\* C17: every GET request sent by download_ts_to at an offset greater than 0
\* carries a byte-range request header asking for the bytes from that offset
\* to the end of the resource, and a request at offset 0 carries no range
\* header. (A step taken in the Connect phase sends one request.)
C17_RangeHeaderRequestsTheRest ==
    [][dl_pc = "connect" =>
          IF start > 0
          THEN /\ req' # <<>>
               /\ Len(req'[1]) = 4
               /\ req'[1][1] = "bytes" /\ req'[1][2] = "="
               /\ req'[1][3] = start /\ req'[1][4] = "-"
          ELSE req' = <<>>]_vars

\* ---- C18 (SpecFetch)
\* What a step shows of C18: the counter is 0 after a chunk was written; it
\* changes only to 0 (a chunk was written or a new response obtained) or by
\* exactly 1 (a read of the same response failed, nothing was written); the
\* streaming of a response is given up only by the failed read that brings
\* the counter from 9 to 10.
C18_Step ==
    /\ (file' # file /\ dl_pc' = "stream") => retried' = 0
    /\ retried' # retried => (retried' = 0 \/ retried' = retried + 1)
    /\ (retried' = 0 /\ retried # 0) =>
           (file' # file \/ connections' = connections + 1)
    /\ retried' = retried + 1 =>
           /\ dl_pc = "stream"
           /\ file' = file /\ received' = received /\ have_read' = have_read
           /\ connections' = connections
    /\ (dl_pc = "stream" /\ dl_pc' = "connect") => (retried = 9 /\ retried' = 10)
    /\ (dl_pc = "stream" /\ retried < 9) => dl_pc' # "connect"

\* C18: the body-error counter counts consecutive errors only: it is 0 right
\* after every written chunk, goes up by exactly 1 on each body-read error
\* and never exceeds 10, so a response is given up only after 10 body-read
\* errors on it with no chunk between them.
C18_CounterCountsConsecutiveErrors == [](retried \in 0..10) /\ [][C18_Step]_vars

\* Nine reads of a response have failed in a row after a chunk of it was
\* written, and the response is still being read.
C18_NineErrorsAfterAChunk ==
    /\ dl_pc = "stream"
    /\ retried = 9
    /\ have_read > 0
    /\ response # <<>>

\* ---- C19 (SpecFetch)
\* C19: download_ts_to invoked on a sink that already holds the complete
\* resource returns Ok and leaves the sink byte-identical to the resource.
C19_CompleteSinkIsLeftAlone ==
    (dl_pc = "Ok" /\ init_file = resource) => file = resource

\* ---- C20 (SpecResolveLive)
\* C20: choose_media_playlist terminates for every finite set of manifests,
\* also when master playlists name each other or themselves as their best
\* variant: eventually the chain of calls has returned (a playlist or an
\* error) or has panicked, and its depth stays bounded.
C20_ResolutionTerminates == <>(stack = <<>>)

====
